---- MODULE Spec2Model ----
(***************************************************************************)
(* A model of functions.py: the Wikipedia text-cleaning pipeline           *)
(* (collapse_stacked_math, convert_displaystyle_latex,                     *)
(* convert_inline_latex_fragments, clean_wikipedia_text) and the fetch     *)
(* functions (wiki_fetch, wiki_content).                                   *)
(*                                                                         *)
(* A Python str is a sequence of characters; a character is a TLA+ string, *)
(* an ASCII character standing for itself and any other code point written *)
(* "U+XXXX".  Every regular expression of the source is written as the     *)
(* sequence of its nodes and run by one backtracking matcher (Match) that  *)
(* tries the alternatives in the order Python's re module tries them.      *)
(***************************************************************************)
EXTENDS Integers, Sequences, FiniteSets, TLC

VARIABLES
    pc,           \* the place the program is at
    text,         \* the argument `text` of the function called
    before,       \* the local `text` before the statement last run
    out,          \* the local `text` after the statement last run
    for_jupyter,  \* the argument for_jupyter of clean_wikipedia_text
    once,         \* <<the result of the first call>> once it has returned
    pieces,       \* the pieces the argument was put together from
    env,          \* what the encyclopedia and the host shell answer
    call,         \* the locals of the wiki_fetch or wiki_content call under way
    ret,          \* <<the string the call returned>> once it has returned
    ret_fetch     \* ret of the wiki_fetch call, kept while wiki_content runs

vars == <<pc, text, before, out, for_jupyter, once, pieces, env, call, ret, ret_fetch>>

\* the variables of the text functions, and those of the fetch functions
textVars == <<text, before, out, for_jupyter, once, pieces>>
wikiVars == <<env, call, ret, ret_fetch>>

None == [none |-> TRUE]

\* no fetch function is running
NoWiki == env = None /\ call = None /\ ret = <<>> /\ ret_fetch = <<>>

----------------------------------------------------------------------------
(* Characters and character classes                                        *)

Lower == {"a", "b", "c", "d", "e", "f", "g", "h", "i", "j", "k", "l", "m",
          "n", "o", "p", "q", "r", "s", "t", "u", "v", "w", "x", "y", "z"}

Upper == {"A", "B", "C", "D", "E", "F", "G", "H", "I", "J", "K", "L", "M",
          "N", "O", "P", "Q", "R", "S", "T", "U", "V", "W", "X", "Y", "Z"}

Digit == {"0", "1", "2", "3", "4", "5", "6", "7", "8", "9"}

\* [A-Za-z]
Letter == Lower \cup Upper

\* \s of a str pattern, and the characters str.strip() removes
Whitespace == {" ", "\t", "\n", "\r", "\f", "U+000B", "U+00A0", "U+2003"}

\* the character class of the two patterns of collapse_stacked_math
MathTokenChars ==
    Letter \cup Digit \cup
    {"U+00D7", "U+00F7", "U+00B1", "U+2213", "U+2264", "U+2265", "U+2260",
     "U+2248", "U+2208", "U+2209", "U+2282", "U+2283", "U+222A", "U+2229",
     "U+2227", "U+2228", "U+00AC", "U+2192", "U+2190", "U+2194", "U+2200",
     "U+2203", "U+2202", "U+2207", "U+222B", "U+2211", "U+220F", "U+221A",
     "U+221E", "U+03B1", "U+03B2", "U+03B3", "U+03B4", "U+03B5", "U+03B6",
     "U+03B7", "U+03B8", "U+03B9", "U+03BA", "U+03BB", "U+03BC", "U+03BD",
     "U+03BE", "U+03C0", "U+03C1", "U+03C3", "U+03C4", "U+03C5", "U+03C6",
     "U+03C7", "U+03C8", "U+03C9", "U+0393", "U+0394", "U+0398", "U+039B",
     "U+039E", "U+03A0", "U+03A3", "U+03A6", "U+03A8", "U+03A9"} \cup
    {"=", "+", "-", "*", "/", "^", "(", ")", ".", ","}

----------------------------------------------------------------------------
(* str operations                                                          *)

\* the value a variable holds after a run of assignments to it: values lists
\* the assigned values, each computed from the one before it and evaluated in
\* its turn
InOrder(values) == values[Len(values)]

RECURSIVE Flatten(_)
\* ''.join(parts)
Flatten(parts) ==
    IF parts = <<>> THEN <<>> ELSE Head(parts) \o Flatten(Tail(parts))

RECURSIVE lstrip(_)
lstrip(s) ==
    IF s # <<>> /\ Head(s) \in Whitespace THEN lstrip(Tail(s)) ELSE s

RECURSIVE rstrip(_)
rstrip(s) ==
    IF s # <<>> /\ s[Len(s)] \in Whitespace
    THEN rstrip(SubSeq(s, 1, Len(s) - 1))
    ELSE s

\* s.strip()
strip(s) == rstrip(lstrip(s))

RECURSIVE split(_, _)
\* s.split(sep) for a one-character sep: always at least one piece
split(s, sep) ==
    IF \E i \in 1..Len(s) : s[i] = sep
    THEN LET i == CHOOSE k \in 1..Len(s) :
                      s[k] = sep /\ \A j \in 1..(k - 1) : s[j] # sep
         IN  <<SubSeq(s, 1, i - 1)>> \o split(SubSeq(s, i + 1, Len(s)), sep)
    ELSE <<s>>

RECURSIVE join(_, _)
\* sep.join(parts)
join(sep, parts) ==
    IF parts = <<>> THEN <<>>
    ELSE IF Len(parts) = 1 THEN parts[1]
    ELSE parts[1] \o sep \o join(sep, Tail(parts))

\* s.replace(c, new) for a one-character c
replace(s, c, new) == join(new, split(s, c))

\* whether the characters of w stand in s from index i on
At(s, i, w) ==
    /\ i + Len(w) - 1 <= Len(s)
    /\ \A k \in 1..Len(w) : s[i + k - 1] = w[k]

\* w in s
Contains(s, w) == \E i \in 1..(Len(s) + 1) : At(s, i, w)

----------------------------------------------------------------------------
(* Regular expressions (module re).  A pattern is a sequence of nodes:     *)
(*   In(S)  [..]      NotIn(S)  [^..]     Lit(w)  the characters of w      *)
(*   Star(n)  n*      Plus(n)  n+         Opt(n)  n?     Cat(ns)  (?:..)   *)
(*   Cap(k, n)  the k-th group (..)       Ref(k)  \k                       *)
(*   NotBehind(S)  (?<![..])    NotAhead(S)  (?![..])    Eol  $ (MULTILINE)*)
(* The quantifiers are greedy and give back on failure.  No quantified     *)
(* node of the source's patterns matches the empty string.                 *)

In(S) == [t |-> "in", s |-> S]
NotIn(S) == [t |-> "notin", s |-> S]
Lit(w) == [t |-> "lit", w |-> w]
Star(n) == [t |-> "star", n |-> n]
Opt(n) == [t |-> "opt", n |-> n]
Cat(ns) == [t |-> "cat", ns |-> ns]
Plus(n) == Cat(<<n, Star(n)>>)
Cap(k, n) == Cat(<<[t |-> "open", k |-> k], n, [t |-> "close", k |-> k]>>)
Ref(k) == [t |-> "ref", k |-> k]
NotBehind(S) == [t |-> "notbehind", s |-> S]
NotAhead(S) == [t |-> "notahead", s |-> S]
Eol == [t |-> "eol"]

\* no match
NoMatch == [ok |-> FALSE]

\* the groups before the match, each <<start, end>>: the patterns of the
\* source have one group at most
NoGroups == << <<0, 0>> >>

\* whether the one-character node n matches the character c
OneChar(n, c) == IF n.t = "in" THEN c \in n.s ELSE c \notin n.s

\* the length of the longest run of characters of s from index i on that the
\* one-character node n matches
Run(s, n, i) ==
    CHOOSE r \in 0..(Len(s) - i + 1) :
        /\ \A j \in i..(i + r - 1) : OneChar(n, s[j])
        /\ (i + r <= Len(s) => ~OneChar(n, s[i + r]))

RECURSIVE Match(_, _, _, _)
RECURSIVE GiveBack(_, _, _, _, _)
\* the first way, in the matcher's order, in which the nodes ks match s from
\* index i on, with the groups g met so far: [ok, end, g], end the index
\* after the match
Match(s, ks, i, g) ==
    IF ks = <<>> THEN [ok |-> TRUE, end |-> i, g |-> g]
    ELSE
      LET k == Head(ks)
          rest == Tail(ks)
      IN
      CASE k.t = "in" ->
             IF i <= Len(s) /\ s[i] \in k.s
             THEN Match(s, rest, i + 1, g) ELSE NoMatch
        [] k.t = "notin" ->
             IF i <= Len(s) /\ s[i] \notin k.s
             THEN Match(s, rest, i + 1, g) ELSE NoMatch
        [] k.t = "lit" ->
             IF At(s, i, k.w)
             THEN Match(s, rest, i + Len(k.w), g) ELSE NoMatch
        [] k.t = "cat" -> Match(s, k.ns \o rest, i, g)
        [] k.t = "star" /\ k.n.t \in {"in", "notin"} ->
             GiveBack(s, rest, i, Run(s, k.n, i), g)
        [] k.t = "star" /\ k.n.t \notin {"in", "notin"} ->
             LET more == Match(s, <<k.n, k>> \o rest, i, g)
             IN  IF more.ok THEN more ELSE Match(s, rest, i, g)
        [] k.t = "opt" ->
             LET with == Match(s, <<k.n>> \o rest, i, g)
             IN  IF with.ok THEN with ELSE Match(s, rest, i, g)
        [] k.t = "open" ->
             Match(s, rest, i, [g EXCEPT ![k.k] = <<i, i>>])
        [] k.t = "close" ->
             Match(s, rest, i, [g EXCEPT ![k.k] = <<g[k.k][1], i>>])
        [] k.t = "ref" ->
             LET w == SubSeq(s, g[k.k][1], g[k.k][2] - 1)
             IN  IF At(s, i, w)
                 THEN Match(s, rest, i + Len(w), g) ELSE NoMatch
        [] k.t = "notbehind" ->
             IF i > 1 /\ s[i - 1] \in k.s
             THEN NoMatch ELSE Match(s, rest, i, g)
        [] k.t = "notahead" ->
             IF i <= Len(s) /\ s[i] \in k.s
             THEN NoMatch ELSE Match(s, rest, i, g)
        [] k.t = "eol" ->
             IF i = Len(s) + 1 \/ s[i] = "\n"
             THEN Match(s, rest, i, g) ELSE NoMatch

\* a greedy star over one-character nodes that has taken r characters from
\* index i on: the rest of the pattern is tried after them, then after one
\* character less, down to none
GiveBack(s, rest, i, r, g) ==
    LET m == Match(s, rest, i + r, g)
    IN  IF m.ok THEN m
        ELSE IF r = 0 THEN NoMatch
        ELSE GiveBack(s, rest, i, r - 1, g)

\* the indices of s at which the pattern matches
MatchStarts(s, pattern) ==
    {j \in 1..Len(s) : Match(s, pattern, j, NoGroups).ok}

\* the first of the indices starts that is not before index i
NextStart(starts, i) ==
    CHOOSE a \in starts : a >= i /\ \A b \in starts : b >= i => a <= b

RECURSIVE FindFrom(_, _, _, _)
RECURSIVE FindNext(_, _, _, _, _)
\* the non-overlapping matches from index i on, leftmost first, as re.sub
\* finds them: each [start, end, g]; starts is MatchStarts(s, pattern)
FindFrom(s, pattern, starts, i) ==
    IF \A j \in starts : j < i THEN <<>>
    ELSE FindNext(s, pattern, starts, NextStart(starts, i),
                  Match(s, pattern, NextStart(starts, i), NoGroups))

\* the match m found at index j, and the matches after it
FindNext(s, pattern, starts, j, m) ==
    <<[start |-> j, end |-> m.end, g |-> m.g]>>
        \o FindFrom(s, pattern, starts, m.end)

FindAll(s, pattern) == FindFrom(s, pattern, MatchStarts(s, pattern), 1)

\* match.group(k)
Group(s, m, k) == SubSeq(s, m.g[k][1], m.g[k][2] - 1)

\* match.group(0)
Group0(s, m) == SubSeq(s, m.start, m.end - 1)

\* s with the n-th of the matches ms replaced by news[n]
Replaced(s, ms, news) ==
    LET built[n \in 0..Len(ms)] ==
            IF n = 0 THEN <<>>
            ELSE built[n - 1]
                 \o SubSeq(s, IF n = 1 THEN 1 ELSE ms[n - 1].end, ms[n].start - 1)
                 \o news[n]
    IN  built[Len(ms)]
        \o SubSeq(s, IF ms = <<>> THEN 1 ELSE ms[Len(ms)].end, Len(s))

\* match.expand(repl) for a replacement string repl: its characters, the
\* item "\\1" standing for the reference \1 to group 1
Expand(s, m, repl) ==
    Flatten([i \in 1..Len(repl) |->
                IF repl[i] = "\\1" THEN Group(s, m, 1) ELSE <<repl[i]>>])

\* s with each of the matches ms replaced by the replacement string repl
SubAt(s, ms, repl) ==
    Replaced(s, ms, [n \in 1..Len(ms) |-> Expand(s, ms[n], repl)])

\* re.sub(pattern, repl, s), repl a replacement string
Sub(s, pattern, repl) == InOrder(<<s, SubAt(s, FindAll(s, pattern), repl)>>)

\* re.sub(pattern, new, s) for a replacement without group references
SubConst(s, pattern, new) == Sub(s, pattern, new)

\* re.sub(pattern, r'\1', s)
SubGroup1(s, pattern) == Sub(s, pattern, <<"\\1">>)

----------------------------------------------------------------------------
(* convert_displaystyle_latex                                              *)

DISPLAYSTYLE == <<"\\", "d", "i", "s", "p", "l", "a", "y", "s", "t", "y", "l", "e">>
TIMES == <<"\\", "t", "i", "m", "e", "s">>
CDOT == <<"\\", "c", "d", "o", "t">>

\* r'[^{}]*'
NoBraces == Star(NotIn({"{", "}"}))

\* a pattern that forgets the nested braces: r'\{\\displaystyle\s+([^{}]*)\}'
DisplaystylePatternFlat ==
    << Lit(<<"{">> \o DISPLAYSTYLE), Plus(In(Whitespace)),
       Cap(1, NoBraces), Lit(<<"}">>) >>

\* r'\{\\displaystyle\s+([^{}]*(?:\{[^{}]*\}[^{}]*)*)\}'
DisplaystylePattern ==
    << Lit(<<"{">> \o DISPLAYSTYLE), Plus(In(Whitespace)),
       Cap(1, Cat(<< NoBraces,
                     Star(Cat(<<Lit(<<"{">>), NoBraces, Lit(<<"}">>), NoBraces>>)) >>)),
       Lit(<<"}">>) >>

\* re.sub(r'\\times', r' \\times ', content)
SpaceTimes(content) == SubConst(content, <<Lit(TIMES)>>, <<" ">> \o TIMES \o <<" ">>)

\* re.sub(r'\\cdot', r' \\cdot ', content)
SpaceCdot(content) == SubConst(content, <<Lit(CDOT)>>, <<" ">> \o CDOT \o <<" ">>)

\* re.sub(r'\s+', ' ', content).strip()
OneSpace(content) == strip(SubConst(content, <<Plus(In(Whitespace))>>, <<" ">>))

\* the nested function replace_displaystyle
replace_displaystyle(s, match) ==
    <<"$">> \o OneSpace(SpaceCdot(SpaceTimes(strip(Group(s, match, 1))))) \o <<"$">>

\* t with each of the matches ms replaced by what replace_displaystyle
\* returns for it
ReplaceDisplaystyle(t, ms) ==
    Replaced(t, ms, [n \in 1..Len(ms) |-> replace_displaystyle(t, ms[n])])

\* re.sub(pattern, replace_displaystyle, text)
convert_displaystyle_latex(t) ==
    InOrder(<<t, ReplaceDisplaystyle(t, FindAll(t, DisplaystylePattern))>>)

----------------------------------------------------------------------------
(* convert_inline_latex_fragments                                          *)

MATHBF == <<"\\", "m", "a", "t", "h", "b", "f">>
MATHIT == <<"\\", "m", "a", "t", "h", "i", "t">>
MATHRM == <<"\\", "m", "a", "t", "h", "r", "m">>
TEXT == <<"\\", "t", "e", "x", "t">>

\* r'(?<!\$)\\mathbf\{[^}]+\}(?!\$)', and the same for \mathit and \mathrm
WrappedCommandPattern(command) ==
    << NotBehind({"$"}), Lit(command \o <<"{">>), Plus(NotIn({"}"})),
       Lit(<<"}">>), NotAhead({"$"}) >>

\* r'(?<!\$)\\[A-Za-z]+(?:\{[^}]*\})?(?!\$)'
AnyCommandPattern ==
    << NotBehind({"$"}), Lit(<<"\\">>), Plus(In(Letter)),
       Opt(Cat(<<Lit(<<"{">>), Star(NotIn({"}"})), Lit(<<"}">>)>>)),
       NotAhead({"$"}) >>

\* the list `patterns`
patterns ==
    << WrappedCommandPattern(MATHBF), WrappedCommandPattern(MATHIT),
       WrappedCommandPattern(MATHRM), AnyCommandPattern >>

\* the nested function wrap_latex
wrap_latex(s, match) == <<"$">> \o Group0(s, match) \o <<"$">>

\* re.sub(pattern, wrap_latex, text), ms the matches of pattern in t
WrapLatex(t, ms) ==
    Replaced(t, ms, [n \in 1..Len(ms) |-> wrap_latex(t, ms[n])])

RECURSIVE WrapAll(_, _)
\* the for loop, from the n-th pattern on
WrapAll(t, n) ==
    IF n > Len(patterns) THEN t
    ELSE InOrder(<<t, WrapAll(WrapLatex(t, FindAll(t, patterns[n])), n + 1)>>)

\* r'\$\$([^$]+)\$\$' replaced by r'$\1$'
UnDoubleDollar(t) ==
    Sub(t, <<Lit(<<"$", "$">>), Cap(1, Plus(NotIn({"$"}))), Lit(<<"$", "$">>)>>,
        <<"$", "\\1", "$">>)

\* r'\$\s*\$' replaced by ' '
JoinAdjacentMath(t) ==
    SubConst(t, <<Lit(<<"$">>), Star(In(Whitespace)), Lit(<<"$">>)>>, <<" ">>)

convert_inline_latex_fragments(t) ==
    JoinAdjacentMath(UnDoubleDollar(WrapAll(t, 1)))

----------------------------------------------------------------------------
(* collapse_stacked_math                                                   *)

\* a collapser that already merges two stacked lines
MinStackedRunMutant == 1 + 1

\* the run length from which stacked tokens are collapsed
MinStackedRun == 3

\* the longest stripped line that counts as a token
MaxTokenLen == 3

\* len(line) <= 3 and re.match(r'^[...]+$', line)
IsMathToken(line) ==
    /\ Len(line) <= MaxTokenLen
    /\ line # <<>>
    /\ \A k \in 1..Len(line) : line[k] \in MathTokenChars

RECURSIVE CollectTokens(_, _)
\* the inner while loop: the index j at which the run of tokens that
\* started before j stops
CollectTokens(lines, j) ==
    IF j <= Len(lines) /\ IsMathToken(strip(lines[j]))
    THEN CollectTokens(lines, j + 1)
    ELSE j

RECURSIVE CollapseFrom(_, _, _)
\* the outer while loop, from line i on with `result` collected so far
CollapseFrom(lines, i, result) ==
    IF i > Len(lines) THEN result
    ELSE LET j == CollectTokens(lines, i + 1)
             math_tokens == [k \in 1..(j - i) |-> strip(lines[i + k - 1])]
         IN  IF IsMathToken(strip(lines[i])) /\ Len(math_tokens) >= MinStackedRun
             THEN CollapseFrom(lines, j, Append(result, join(<<" ">>, math_tokens)))
             ELSE CollapseFrom(lines, i + 1, Append(result, lines[i]))

collapse_stacked_math(t) ==
    join(<<"\n">>, CollapseFrom(split(t, "\n"), 1, <<>>))

----------------------------------------------------------------------------
(* clean_wikipedia_text                                                    *)

\* Step 1 and Step 2: the stacked tokens, the word joiner
CollapseAndUnjoin(t) ==
    LET t1 == collapse_stacked_math(t)
    IN  InOrder(<<t1, replace(t1, "U+2060", <<>>)>>)

\* the longest bare expression Step 3 takes for a duplicate
MaxDuplicateLen == 20

\* the class [A-Za-z0-9...\s\*\^] of the second pattern of Step 3
BareMathChars ==
    Letter \cup Digit \cup
    {"U+00D7", "U+00F7", "U+00B1", "U+2264", "U+2265", "U+2260", "U+2248",
     "U+2208", "U+2209", "U+2282", "U+2283", "U+222A", "U+2229", "U+221E",
     "U+03A3", "U+03C3", "U+03B1", "U+03B2", "U+03B3", "U+03B4", "U+03BB",
     "U+03BC", "U+03C0", "U+03B8", "U+03C6", "U+03C9"} \cup
    Whitespace \cup {"*", "^"}

\* r'(\S+)\s+\{\\displaystyle\s+\1\s*\}' replaced by r'{\\displaystyle \1}'
DropRepeatedToken(t) ==
    Sub(t, << Cap(1, Plus(NotIn(Whitespace))), Plus(In(Whitespace)),
                  Lit(<<"{">> \o DISPLAYSTYLE), Plus(In(Whitespace)), Ref(1),
              Star(In(Whitespace)), Lit(<<"}">>) >>,
        <<"{">> \o DISPLAYSTYLE \o <<" ", "\\1", "}">>)

\* the lambda of r'([A-Za-z0-9...\s\*\^]+)\s+\{\\displaystyle\s+[^}]*\}': the
\* block with group 1 stripped as its content when that is at most 20
\* characters long, the match itself otherwise
keep_short(s, m) ==
    IF Len(strip(Group(s, m, 1))) <= MaxDuplicateLen
    THEN <<"{">> \o DISPLAYSTYLE \o <<" ">> \o strip(Group(s, m, 1)) \o <<"}">>
    ELSE Group0(s, m)

\* t with each of the matches ms replaced by what the lambda returns for it
KeepShort(t, ms) ==
    Replaced(t, ms, [n \in 1..Len(ms) |-> keep_short(t, ms[n])])

\* re.sub of the bare-expression pattern with the lambda
DropBareExpression(t) ==
    InOrder(<<t, KeepShort(t, FindAll(t,
        << Cap(1, Plus(In(BareMathChars))), Plus(In(Whitespace)),
           Lit(<<"{">> \o DISPLAYSTYLE), Plus(In(Whitespace)),
           Star(NotIn({"}"})), Lit(<<"}">>) >>))>>)

\* Step 3
RemoveDuplicateMath(t) == DropBareExpression(DropRepeatedToken(t))

\* the dict unicode_to_latex, in its order: <<character, replacement>>
unicode_to_latex ==
    << <<"U+00D7", <<" ", "\\", "t", "i", "m", "e", "s", " ">>>>,
       <<"U+00F7", <<" ", "\\", "d", "i", "v", " ">>>>,
       <<"U+00B1", <<" ", "\\", "p", "m", " ">>>>,
       <<"U+2264", <<" ", "\\", "l", "e", "q", " ">>>>,
       <<"U+2265", <<" ", "\\", "g", "e", "q", " ">>>>,
       <<"U+2260", <<" ", "\\", "n", "e", "q", " ">>>>,
       <<"U+2248", <<" ", "\\", "a", "p", "p", "r", "o", "x", " ">>>>,
       <<"U+2208", <<" ", "\\", "i", "n", " ">>>>,
       <<"U+2209", <<" ", "\\", "n", "o", "t", "i", "n", " ">>>>,
       <<"U+2282", <<" ", "\\", "s", "u", "b", "s", "e", "t", " ">>>>,
       <<"U+2283", <<" ", "\\", "s", "u", "p", "s", "e", "t", " ">>>>,
       <<"U+222A", <<" ", "\\", "c", "u", "p", " ">>>>,
       <<"U+2229", <<" ", "\\", "c", "a", "p", " ">>>>,
       <<"U+221E", <<"\\", "i", "n", "f", "t", "y">>>>,
       <<"U+2211", <<"\\", "s", "u", "m">>>>,
       <<"U+220F", <<"\\", "p", "r", "o", "d">>>>,
       <<"U+222B", <<"\\", "i", "n", "t">>>>,
       <<"U+221A", <<"\\", "s", "q", "r", "t">>>>,
       <<"U+2202", <<"\\", "p", "a", "r", "t", "i", "a", "l">>>>,
       <<"U+2207", <<"\\", "n", "a", "b", "l", "a">>>> >>

\* the command substitutions of the plain branch, in their order:
\* <<command name, character>> for re.sub(r'\\name', 'character', text)
latex_to_unicode ==
    << <<<<"t", "i", "m", "e", "s">>, "U+00D7">>,
       <<<<"c", "d", "o", "t">>, "U+00B7">>,
       <<<<"S", "i", "g", "m", "a">>, "U+03A3">>,
       <<<<"s", "i", "g", "m", "a">>, "U+03C3">>,
       <<<<"a", "l", "p", "h", "a">>, "U+03B1">>,
       <<<<"b", "e", "t", "a">>, "U+03B2">>,
       <<<<"g", "a", "m", "m", "a">>, "U+03B3">>,
       <<<<"d", "e", "l", "t", "a">>, "U+03B4">>,
       <<<<"l", "a", "m", "b", "d", "a">>, "U+03BB">>,
       <<<<"m", "u">>, "U+03BC">>,
       <<<<"p", "i">>, "U+03C0">>,
       <<<<"t", "h", "e", "t", "a">>, "U+03B8">>,
       <<<<"p", "h", "i">>, "U+03C6">>,
       <<<<"o", "m", "e", "g", "a">>, "U+03C9">>,
       <<<<"i", "n", "f", "t", "y">>, "U+221E">>,
       <<<<"l", "e", "q">>, "U+2264">>,
       <<<<"g", "e", "q">>, "U+2265">>,
       <<<<"n", "e", "q">>, "U+2260">>,
       <<<<"a", "p", "p", "r", "o", "x">>, "U+2248">>,
       <<<<"i", "n">>, "U+2208">>,
       <<<<"s", "u", "b", "s", "e", "t">>, "U+2282">>,
       <<<<"s", "u", "p", "s", "e", "t">>, "U+2283">>,
       <<<<"p", "m">>, "U+00B1">> >>

RECURSIVE ReplaceUnicode(_, _)
\* the for loop over unicode_to_latex.items(), from the n-th item on
ReplaceUnicode(t, n) ==
    IF n > Len(unicode_to_latex) THEN t
    ELSE InOrder(<<t, ReplaceUnicode(replace(t, unicode_to_latex[n][1],
                                             unicode_to_latex[n][2]), n + 1)>>)

\* the branch `if for_jupyter`: Steps 4, 5 and 6
JupyterBranch(t) ==
    ReplaceUnicode(convert_inline_latex_fragments(convert_displaystyle_latex(t)), 1)

\* r'\{\\displaystyle[^}]*\}' replaced by ''
RemoveDisplaystyle(t) ==
    SubConst(t, <<Lit(<<"{">> \o DISPLAYSTYLE), Star(NotIn({"}"})), Lit(<<"}">>)>>, <<>>)

\* r'\\mathbf\s*\{([^}]*)\}' replaced by r'\1', and the same for the others
Unwrap(t, command) ==
    SubGroup1(t, << Lit(command), Star(In(Whitespace)), Lit(<<"{">>),
                    Cap(1, Star(NotIn({"}"}))), Lit(<<"}">>) >>)

RECURSIVE ReplaceCommands(_, _)
\* the substitutions of latex_to_unicode, from the n-th on
ReplaceCommands(t, n) ==
    IF n > Len(latex_to_unicode) THEN t
    ELSE InOrder(<<t, ReplaceCommands(
                          SubConst(t, <<Lit(<<"\\">> \o latex_to_unicode[n][1])>>,
                                   <<latex_to_unicode[n][2]>>), n + 1)>>)

\* r'\^\{?\*\}?' replaced by '*'
StarExponent(t) ==
    SubConst(t, <<Lit(<<"^">>), Opt(Lit(<<"{">>)), Lit(<<"*">>), Opt(Lit(<<"}">>))>>,
             <<"*">>)

\* r'\^\{([^}]*)\}' replaced by r'^\1', and r'_\{([^}]*)\}' by r'_\1'
Unbrace(t, mark) ==
    Sub(t, <<Lit(<<mark, "{">>), Cap(1, Star(NotIn({"}"}))), Lit(<<"}">>)>>,
        <<mark, "\\1">>)

\* r'\}' replaced by ''
RemoveClosingBraces(t) == SubConst(t, <<Lit(<<"}">>)>>, <<>>)

\* r',\s*$' replaced by '' with re.MULTILINE
RemoveTrailingCommas(t) ==
    SubConst(t, <<Lit(<<",">>), Star(In(Whitespace)), Eol>>, <<>>)

\* r'\s+' replaced by ' '
CollapseSpaces(t) == SubConst(t, <<Plus(In(Whitespace))>>, <<" ">>)

\* r'\n{3,}' replaced by '\n\n'
CollapseBlankLines(t) ==
    SubConst(t, <<Lit(<<"\n", "\n", "\n">>), Star(In({"\n"}))>>, <<"\n", "\n">>)

\* the branch `else`: plain text mode
\* the statements of the plain branch up to the command substitutions
PlainCommands(t) ==
    ReplaceCommands(
        Unwrap(Unwrap(Unwrap(Unwrap(RemoveDisplaystyle(t),
                                    MATHBF), MATHIT), MATHRM), TEXT), 1)

\* the statements after them, on the text `marked` they leave
PlainMarks(marked) ==
    RemoveTrailingCommas(RemoveClosingBraces(
        Unbrace(Unbrace(StarExponent(marked), "^"), "_")))

\* the branch `else`: plain text mode
PlainBranch(t) ==
    CollapseBlankLines(CollapseSpaces(PlainMarks(PlainCommands(t))))

\* the last two statements: the blank lines, and the strip of the result
Finish(t) == strip(CollapseBlankLines(t))

\* Step 3, then the branch on for_jupyter
Branch(t, jupyter) ==
    IF jupyter THEN JupyterBranch(RemoveDuplicateMath(t))
    ELSE PlainBranch(RemoveDuplicateMath(t))

clean_wikipedia_text(t, jupyter) == Finish(Branch(CollapseAndUnjoin(t), jupyter))

----------------------------------------------------------------------------
(* Checking collapse_stacked_math: the text is built from up to            *)
(* MaxCollapseLines lines drawn from CollapseLines.                        *)

MaxCollapseLines == 6

CollapseLines ==
    { <<>>, <<"U+00D7">>, <<" ", "n", "+", "1", " ">>,
      <<"m", "n", "+", "1">>, <<"#">> }

LinesUpTo(n) == UNION { [1..k -> CollapseLines] : k \in 1..n }

InitCollapse ==
    /\ \E ls \in LinesUpTo(MaxCollapseLines) :
          /\ text = join(<<"\n">>, ls)
          /\ pieces = ls
    /\ pc = "start"
    /\ before = text
    /\ out = text
    /\ for_jupyter = FALSE
    /\ once = <<>>
    /\ NoWiki

CallCollapse ==
    /\ pc = "start"
    /\ before' = out
    /\ out' = collapse_stacked_math(text)
    /\ pc' = "done"
    /\ UNCHANGED <<text, for_jupyter, once, pieces, wikiVars>>

NextCollapse == CallCollapse

SpecCollapse == InitCollapse /\ [][NextCollapse]_vars

\* a stripped line is a math token: 1 to 3 characters of the class
C2Token(l) ==
    Len(l) \in 1..3 /\ \A k \in 1..Len(l) : l[k] \in MathTokenChars

\* for each line of L whether, stripped, it is a math token
C2Tokens(L) == [i \in 1..Len(L) |-> C2Token(strip(L[i]))]

\* the first and the last line of the maximal run of tokens around line i
C2Lo(tok, i) == CHOOSE j \in 1..i :
    /\ \A k \in j..i : tok[k]
    /\ (j = 1 \/ ~tok[j - 1])
C2Hi(tok, i) == CHOOSE j \in i..Len(tok) :
    /\ \A k \in i..j : tok[k]
    /\ (j = Len(tok) \/ ~tok[j + 1])

\* line i lies in a maximal run of 3 or more tokens
C2Long(tok, i) == tok[i] /\ C2Hi(tok, i) - C2Lo(tok, i) + 1 >= 3

\* line i opens a line of the result: every line outside the long runs, and
\* the first line of each long run
C2Unit(tok, i) == ~C2Long(tok, i) \/ C2Lo(tok, i) = i

\* the index in the result of the line that line i opens
C2Index(tok, i) == Cardinality({j \in 1..i : C2Unit(tok, j)})

\* C2: every maximal run of 3 or more stacked math tokens becomes one line,
\* the stripped tokens joined by single spaces; every other line (runs of 1
\* or 2 tokens included) is copied unchanged and in order; a text without a
\* math-like line is returned unchanged.
C2_CollapseRuns ==
    pc = "done" =>
        LET L == split(text, "\n")
            R == split(out, "\n")
            tok == C2Tokens(L)
        IN  /\ Len(R) = C2Index(tok, Len(L))
            /\ \A i \in 1..Len(L) :
                  C2Unit(tok, i) =>
                      R[C2Index(tok, i)] =
                          IF C2Long(tok, i)
                          THEN join(<<" ">>,
                                    [k \in 1..(C2Hi(tok, i) - i + 1) |->
                                        strip(L[i + k - 1])])
                          ELSE L[i]
            /\ ((\A i \in 1..Len(L) : ~tok[i]) => out = text)

\* a text with a run that is collapsed, a run of two that is not, and a
\* line that is no token
C2_Witness ==
    /\ pc = "done"
    /\ out # text
    /\ LET L == split(text, "\n")
           tok == C2Tokens(L)
       IN  /\ \E i \in 1..Len(L) : C2Long(tok, i)
           /\ \E i \in 1..Len(L) :
                 tok[i] /\ C2Hi(tok, i) - C2Lo(tok, i) + 1 = 2
           /\ \E i \in 1..Len(L) : ~tok[i] /\ L[i] # <<>>

----------------------------------------------------------------------------
(* Checking Step 4 and Step 5 of the jupyter branch: the text is put       *)
(* together from up to MaxMathPieces pieces: plain text, and               *)
(* {\displaystyle ...} spans whose content nests braces 0, 1 or 2 deep.    *)

MaxMathPieces == 3

Plain(w) == [kind |-> "plain", s |-> w]

\* the span {\displaystyle<ws><inner>}
Span(ws, inner) ==
    [kind |-> "span", s |-> <<"{">> \o DISPLAYSTYLE \o ws \o inner \o <<"}">>,
     inner |-> inner]

MathPieces ==
    { Plain(<<"m", " ">>), Plain(<<"}">>), Plain(<<"{">>), Plain(TIMES),
      Plain(<<"$", "x", "$">>),
      Span(<<" ">>, <<"m">> \o TIMES \o <<" ", "n">>),
      Span(<<"\n", " ">>, <<"a", "{", "b", "}">> \o CDOT \o <<" ", "c", " ">>),
      Span(<<" ">>, <<"x", " ", "\n", " ", "y", "{", "}", "{", "z", "}">>),
      Span(<<" ">>, <<"a", "{", "b", "{", "c", "}", "}">>),
      Span(<<" ">>, <<>>) }

PiecesUpTo(S, n) == UNION { [1..k -> S] : k \in 0..n }

InitMath ==
    /\ \E ps \in PiecesUpTo(MathPieces, MaxMathPieces) :
          /\ pieces = ps
          /\ text = Flatten([k \in 1..Len(ps) |-> ps[k].s])
    /\ pc = "step4"
    /\ before = text
    /\ out = text
    /\ for_jupyter = TRUE
    /\ once = <<>>
    /\ NoWiki

\* Step 4: text = convert_displaystyle_latex(text)
Step4 ==
    /\ pc = "step4"
    /\ before' = out
    /\ out' = convert_displaystyle_latex(out)
    /\ pc' = "step5"
    /\ UNCHANGED <<text, for_jupyter, once, pieces, wikiVars>>

\* Step 5, the for loop of convert_inline_latex_fragments
Step5Wrap ==
    /\ pc = "step5"
    /\ before' = out
    /\ out' = WrapAll(out, 1)
    /\ pc' = "step5cleanup"
    /\ UNCHANGED <<text, for_jupyter, once, pieces, wikiVars>>

\* Step 5, the two clean-up substitutions of convert_inline_latex_fragments
Step5CleanUp ==
    /\ pc = "step5cleanup"
    /\ before' = out
    /\ out' = JoinAdjacentMath(UnDoubleDollar(out))
    /\ pc' = "step6"
    /\ UNCHANGED <<text, for_jupyter, once, pieces, wikiVars>>

NextMath == Step4 \/ Step5Wrap \/ Step5CleanUp

SpecMath == InitMath /\ [][NextMath]_vars

\* the deepest brace nesting of w: 0 for no braces
C3Depth(w) ==
    LET open(j) == Cardinality({i \in 1..j : w[i] = "{"})
                     - Cardinality({i \in 1..j : w[i] = "}"})
    IN  CHOOSE d \in 0..Len(w) :
            /\ \A j \in 1..Len(w) : open(j) <= d
            /\ (d = 0 \/ \E j \in 1..Len(w) : open(j) = d)

\* w with its whitespace taken out
C3Dense(w) == SelectSeq(w, LAMBDA c : c \notin Whitespace)

\* wherever the command cmd stands in c it has a space, or an end of c, on
\* either side
C3Spaced(c, cmd) ==
    \A p \in 1..Len(c) :
        At(c, p, cmd) =>
            /\ (p = 1 \/ c[p - 1] = " ")
            /\ (p + Len(cmd) > Len(c) \/ c[p + Len(cmd)] = " ")

\* c is the content of a span as the claim has it written: the inner text
\* trimmed, one space for every run of whitespace, \times and \cdot set off
\* by spaces
C3Content(c, inner) ==
    /\ C3Dense(c) = C3Dense(inner)
    /\ (c # <<>> => c[1] # " " /\ c[Len(c)] # " ")
    /\ \A p \in 1..Len(c) : c[p] \in Whitespace => c[p] = " "
    /\ \A p \in 1..(Len(c) - 1) : ~(c[p] = " " /\ c[p + 1] = " ")
    /\ C3Spaced(c, TIMES)
    /\ C3Spaced(c, CDOT)

\* o is what the claim has piece become
C3Image(piece, o) ==
    IF piece.kind = "span" /\ C3Depth(piece.inner) <= 1
    THEN /\ Len(o) >= 2
         /\ o[1] = "$"
         /\ o[Len(o)] = "$"
         /\ C3Content(SubSeq(o, 2, Len(o) - 1), piece.inner)
    ELSE o = piece.s

RECURSIVE C3Images(_, _)
\* o is the pieces ps, each become what the claim has it become
C3Images(ps, o) ==
    IF ps = <<>> THEN o = <<>>
    ELSE \E k \in 0..Len(o) :
             /\ C3Image(Head(ps), SubSeq(o, 1, k))
             /\ C3Images(Tail(ps), SubSeq(o, k + 1, Len(o)))

\* C3: every {\displaystyle ...} span whose content nests braces at most one
\* level deep becomes $content$, the content trimmed, its whitespace runs
\* single spaces and \times, \cdot set off by spaces; a span nested deeper,
\* and all text outside the spans, is left as it is.
C3_ConvertDisplaystyle ==
    pc = "step5" =>
        /\ C3Images(pieces, out)
        /\ (text = <<"{">> \o DISPLAYSTYLE \o <<" ", "m">> \o TIMES \o <<" ", "n", "}">>
              => out = <<"$", "m", " ">> \o TIMES \o <<" ", "n", "$">>)
        /\ ((\A k \in 1..Len(pieces) : pieces[k].kind = "plain") => out = text)

\* a converted span with nested braces next to a span nested too deep
C3_Witness ==
    /\ pc = "step5"
    /\ out # text
    /\ \E k \in 1..Len(pieces) :
          pieces[k].kind = "span" /\ C3Depth(pieces[k].inner) = 1
    /\ \E k \in 1..Len(pieces) :
          pieces[k].kind = "span" /\ C3Depth(pieces[k].inner) = 2
    /\ \E k \in 1..Len(pieces) : pieces[k].kind = "plain"

\* the index after the letters of the command whose backslash is s[i]
C9NameEnd(s, i) ==
    CHOOSE j \in (i + 1)..(Len(s) + 1) :
        /\ \A k \in (i + 1)..(j - 1) : s[k] \in Letter
        /\ (j <= Len(s) => s[j] \notin Letter)

\* a $ stands right after the command whose backslash is s[i], after its
\* name or after the {...} group that follows the name
C9Followed(s, i) ==
    \/ At(s, C9NameEnd(s, i), <<"$">>)
    \/ /\ At(s, C9NameEnd(s, i), <<"{">>)
       /\ \E q \in (C9NameEnd(s, i) + 1)..Len(s) :
             /\ s[q] = "}"
             /\ \A k \in (C9NameEnd(s, i) + 1)..(q - 1) : s[k] # "}"
             /\ At(s, q + 1, <<"$">>)

\* the command whose backslash is s[i] is one the wrapper is to skip: it
\* lies inside a $...$ span, or has a $ right before or right after it
C9Skipped(s, i) ==
    \/ Cardinality({k \in 1..(i - 1) : s[k] = "$"}) % 2 = 1
    \/ (i > 1 /\ s[i - 1] = "$")
    \/ C9Followed(s, i)

\* C9: the wrapping loop of convert_inline_latex_fragments leaves a command
\* alone that lies inside an existing $...$ span or has a $ right before or
\* after it: a text all of whose commands are such comes out as it went in.
C9_WrapsOnlyUnwrapped ==
    pc = "step5cleanup" =>
        ((\A i \in 1..Len(before) : before[i] = "\\" => C9Skipped(before, i))
            => out = before)

----------------------------------------------------------------------------
(* Checking clean_wikipedia_text, statement by statement, called a second  *)
(* time on its own result: the text is put together from up to             *)
(* MaxCleanFragments fragments.                                            *)

MaxCleanFragments == 3

\* {\displaystyle <inner>}
Block(inner) == <<"{">> \o DISPLAYSTYLE \o <<" ">> \o inner \o <<"}">>

CleanFragments ==
    { <<"M">>, <<"x">>, <<" ">>, <<",">>, <<"\n", "\n", "\n">>, <<"U+2060">>,
      <<"\\", "a", "l", "p", "h", "a">>,
      Block(<<"M">>), Block(<<"y">>),
      Block(MATHBF \o <<"{", "M", "}", "=", "U">>) }

InitClean ==
    /\ \E fs \in PiecesUpTo(CleanFragments, MaxCleanFragments) :
          /\ pieces = fs
          /\ text = Flatten(fs)
    /\ for_jupyter \in BOOLEAN
    /\ pc = "step1"
    /\ before = text
    /\ out = text
    /\ once = <<>>
    /\ NoWiki

\* Step 1 and Step 2
CleanStep1And2 ==
    /\ pc = "step1"
    /\ before' = out
    /\ out' = CollapseAndUnjoin(out)
    /\ pc' = "step3"
    /\ UNCHANGED <<text, for_jupyter, once, pieces, wikiVars>>

\* Step 3: the two substitutions that remove duplicate math expressions
CleanStep3 ==
    /\ pc = "step3"
    /\ before' = out
    /\ out' = RemoveDuplicateMath(out)
    /\ pc' = "branch"
    /\ UNCHANGED <<text, for_jupyter, once, pieces, wikiVars>>

\* if for_jupyter: Steps 4 to 6
CleanJupyter ==
    /\ pc = "branch"
    /\ for_jupyter
    /\ before' = out
    /\ out' = JupyterBranch(out)
    /\ pc' = "finish"
    /\ UNCHANGED <<text, for_jupyter, once, pieces, wikiVars>>

\* else: plain text mode
CleanPlain ==
    /\ pc = "branch"
    /\ ~for_jupyter
    /\ before' = out
    /\ out' = PlainBranch(out)
    /\ pc' = "finish"
    /\ UNCHANGED <<text, for_jupyter, once, pieces, wikiVars>>

\* the blank lines, and return text.strip()
CleanFinish ==
    /\ pc = "finish"
    /\ before' = out
    /\ out' = Finish(out)
    /\ pc' = "done"
    /\ UNCHANGED <<text, for_jupyter, once, pieces, wikiVars>>

\* the caller passes the result to clean_wikipedia_text once more
CleanAgain ==
    /\ pc = "done"
    /\ once = <<>>
    /\ once' = <<out>>
    /\ before' = out
    /\ pc' = "step1"
    /\ UNCHANGED <<text, out, for_jupyter, pieces, wikiVars>>

NextClean ==
    \/ CleanStep1And2
    \/ CleanStep3
    \/ CleanJupyter
    \/ CleanPlain
    \/ CleanFinish
    \/ CleanAgain

SpecClean == InitClean /\ [][NextClean]_vars

\* <<p, q>>: a block {\displaystyle c} stands in s from index p to index q,
\* c without braces and without whitespace at its ends
C4Blocks(s) ==
    { pq \in (1..Len(s)) \X (1..Len(s)) :
        /\ At(s, pq[1], <<"{">> \o DISPLAYSTYLE \o <<" ">>)
        /\ pq[2] > pq[1] + 15
        /\ s[pq[2]] = "}"
        /\ \A i \in (pq[1] + 15)..(pq[2] - 1) : s[i] \notin {"{", "}"}
        /\ s[pq[1] + 15] \notin Whitespace
        /\ s[pq[2] - 1] \notin Whitespace }

\* the content of the block pq of s
C4Content(s, pq) == SubSeq(s, pq[1] + 15, pq[2] - 1)

\* the block pq of s has a copy of its content, at most 20 characters long,
\* as bare text right before it, whitespace between the two
C4Repeated(s, pq) ==
    LET c == C4Content(s, pq)
    IN  /\ Len(c) <= 20
        /\ \E r \in 1..(pq[1] - 1) :
              /\ At(s, r, c)
              /\ r + Len(c) < pq[1]
              /\ \A i \in (r + Len(c))..(pq[1] - 1) : s[i] \in Whitespace

\* C4: Step 3 changes the text only where a short expression stands both as
\* bare text and as the content of the block right after it, and there it
\* keeps the block: every block keeps its own content, a text without a
\* repeated expression stays as it is, "M {\displaystyle M}" becomes
\* "{\displaystyle M}".
C4_DedupKeepsBlocks ==
    pc = "branch" =>
        /\ \A pq \in C4Blocks(before) :
              Contains(out, SubSeq(before, pq[1], pq[2]))
        /\ ((\A pq \in C4Blocks(before) : ~C4Repeated(before, pq)) => out = before)
        /\ (before = <<"M", " ">> \o Block(<<"M">>) => out = Block(<<"M">>))

\* C5: in plain mode, on a text without LaTeX commands, cleaning the result
\* once more gives the same result.
C5_PlainIdempotent ==
    (pc = "done" /\ once # <<>> /\ ~for_jupyter /\ ~Contains(text, <<"\\">>))
        => out = once[1]

\* some run of 2 or more newlines of s, and nothing else, stands between two
\* characters that are no whitespace
C6ParagraphBreak(s) ==
    \E i, j \in 1..Len(s) :
        /\ j > i + 2
        /\ s[i] \notin Whitespace
        /\ s[j] \notin Whitespace
        /\ \A k \in (i + 1)..(j - 1) : s[k] = "\n"

\* s is words and whitespace
C6Prose(s) == \A i \in 1..Len(s) : s[i] \in Letter \cup Whitespace

\* C6: in both formats the result has no run of 3 or more newlines and no
\* whitespace at its ends, and a paragraph break of the text is a paragraph
\* break, 2 newlines, of the result.
C6_BlankLinesAndTrim ==
    (pc = "done" /\ once = <<>>) =>
        /\ ~Contains(out, <<"\n", "\n", "\n">>)
        /\ (out # <<>> => out[1] \notin Whitespace /\ out[Len(out)] \notin Whitespace)
        /\ ((C6Prose(text) /\ C6ParagraphBreak(text)) => Contains(out, <<"\n", "\n">>))

\* index i of s lies inside a {\displaystyle ...} block, the wrapper
\* included, whose content nests braces at most one level deep
C10InBlock(s, i) ==
    \E p \in 1..i, q \in i..Len(s) :
        LET open(j) == Cardinality({k \in p..j : s[k] = "{"})
                         - Cardinality({k \in p..j : s[k] = "}"})
        IN  /\ At(s, p, <<"{">> \o DISPLAYSTYLE)
            /\ s[q] = "}"
            /\ open(q) = 0
            /\ \A j \in p..(q - 1) : open(j) \in {1, 2}

\* C10: in plain mode every {\displaystyle ...} block, content nested at most
\* one level deep, is removed whole: a letter or "=" that the text has only
\* inside such blocks is not in the result.
C10_PlainRemovesBlocks ==
    (pc = "done" /\ once = <<>> /\ ~for_jupyter) =>
        \A c \in Letter \cup {"="} :
            (\A i \in 1..Len(text) : text[i] = c => C10InBlock(text, i))
                => \A i \in 1..Len(out) : out[i] # c

----------------------------------------------------------------------------
(* is_jupyter, wiki_fetch and wiki_content.  The package wikipedia and the *)
(* host shell are the environment: env holds what each of their calls      *)
(* answers, a value or an exception.                                       *)

\* a call that returns v, and a call that raises e
Returns(v) == [raises |-> <<>>, value |-> <<v>>]
Raises(e) == [raises |-> <<e>>, value |-> <<>>]

\* an exception: its class, str(e), and e.options of a DisambiguationError
Exc(class, msg, options) == [class |-> class, msg |-> msg, options |-> options]

PageError == Exc("PageError", <<"g", "o", "n", "e">>, <<>>)
HTTPTimeoutError == Exc("HTTPTimeoutError", <<"s", "l", "o", "w">>, <<>>)
DisambiguationError(options) ==
    Exc("DisambiguationError", <<"m", "a", "n", "y">>, options)
\* what options[0] raises on an empty list
IndexError ==
    Exc("IndexError",
        <<"l", "i", "s", "t", " ", "i", "n", "d", "e", "x", " ", "o", "u", "t",
          " ", "o", "f", " ", "r", "a", "n", "g", "e">>, <<>>)

\* isinstance(e, class) for the classes the except clauses name: all the
\* exceptions above derive from Exception
IsInstance(e, class) == class = "Exception" \/ e.class = class

\* a WikipediaPage
WikipediaPage(title, summary) ==
    [title |-> title, summary |-> summary,
     content |-> summary \o <<"\n", "\n", "\n">> \o summary]

\* is_jupyter() on a host whose shell is `shell`: "ImportError" when IPython
\* is not installed, "None" when get_ipython() returns None, the name of the
\* shell's class otherwise
is_jupyter(shell) ==
    IF shell = "ImportError" THEN FALSE
    ELSE IF shell = "None" THEN FALSE
    ELSE shell \in {"ZMQInteractiveShell", "Shell"}

\* f"No Wikipedia results found for: {query}"
NoResultsMessage(query) ==
    <<"N", "o", " ", "W", "i", "k", "i", "p", "e", "d", "i", "a", " ", "r", "e",
      "s", "u", "l", "t", "s", " ", "f", "o", "u", "n", "d", " ", "f", "o", "r",
      ":", " ">> \o query

\* f"Wikipedia page not found for: {query}"
NotFoundMessage(query) ==
    <<"W", "i", "k", "i", "p", "e", "d", "i", "a", " ", "p", "a", "g", "e", " ",
      "n", "o", "t", " ", "f", "o", "u", "n", "d", " ", "f", "o", "r", ":", " ">>
        \o query

\* f"Error fetching Wikipedia content: {str(e)}"
ErrorMessage(e) ==
    <<"E", "r", "r", "o", "r", " ", "f", "e", "t", "c", "h", "i", "n", "g", " ",
      "W", "i", "k", "i", "p", "e", "d", "i", "a", " ", "c", "o", "n", "t", "e",
      "n", "t", ":", " ">> \o e.msg

\* the width of the rules of wiki_content's plain header
RuleWidth == 60

\* '='*60
Rule == [k \in 1..RuleWidth |-> "="]

\* the local `header` of the function fn
Header(fn, title, jupyter) ==
    IF fn = "wiki_fetch"
    THEN IF jupyter THEN <<"#", "#", " ">> \o title \o <<"\n", "\n">>
         ELSE <<"=", "=", "=", " ">> \o title \o <<" ", "=", "=", "=", "\n", "\n">>
    ELSE IF jupyter THEN <<"#", " ">> \o title \o <<"\n", "\n">>
         ELSE Rule \o <<"\n">> \o title \o <<"\n">> \o Rule \o <<"\n", "\n">>

\* an outer try without its clause `except Exception`
WikiFetchExceptBare == <<"PageError">>

\* the except clauses of the outer try of wiki_fetch, in their order
WikiFetchExcept == <<"PageError", "Exception">>

\* the except clause of the try of wiki_content
WikiContentExcept == <<"Exception">>

\* what the clause `except class` returns for the exception e
Handled(class, query, e) ==
    IF class = "PageError" THEN NotFoundMessage(query) ELSE ErrorMessage(e)

\* the last of the options instead of the first
LastOption(options) == options[Len(options)]

\* e.options[0]
FirstOption(options) == options[1]

\* the locals of a call of fn that has not run yet
StartCall(fn) ==
    [fn |-> fn, results |-> <<>>, looked |-> <<>>, page |-> <<>>,
     content |-> <<>>, exc |-> <<>>]

\* where the function goes on once it has its page
AfterPage(fn) == IF fn = "wiki_fetch" THEN "content" ELSE "format"

\* results = wikipedia.search(query), and the return on no results
Search ==
    /\ pc = "search"
    /\ IF env.search.raises # <<>>
       THEN /\ call' = [call EXCEPT !.exc = env.search.raises]
            /\ pc' = "except"
            /\ UNCHANGED ret
       ELSE IF env.search.value[1] = <<>>
       THEN /\ ret' = <<NoResultsMessage(env.query)>>
            /\ pc' = "returned"
            /\ UNCHANGED call
       ELSE /\ call' = [call EXCEPT !.results = env.search.value[1]]
            /\ pc' = "page"
            /\ UNCHANGED ret
    /\ UNCHANGED <<textVars, env, ret_fetch>>

\* page = wikipedia.page(results[0], auto_suggest=False)
Page ==
    /\ pc = "page"
    /\ LET answer == env.page[call.results[1]]
       IN  /\ call' = [call EXCEPT !.looked = Append(@, call.results[1]),
                                   !.page = answer.value,
                                   !.exc = answer.raises]
           /\ pc' = IF answer.raises = <<>> THEN AfterPage(call.fn)
                    ELSE IF IsInstance(answer.raises[1], "DisambiguationError")
                    THEN "disambiguation"
                    ELSE "except"
    /\ UNCHANGED <<textVars, env, ret, ret_fetch>>

\* except wikipedia.DisambiguationError as e:
\*     page = wikipedia.page(e.options[0], auto_suggest=False)
Disambiguation ==
    /\ pc = "disambiguation"
    /\ IF call.exc[1].options = <<>>
       THEN /\ call' = [call EXCEPT !.exc = <<IndexError>>]
            /\ pc' = "except"
       ELSE LET option == FirstOption(call.exc[1].options)
                answer == env.page[option]
            IN  /\ call' = [call EXCEPT !.looked = Append(@, option),
                                        !.page = answer.value,
                                        !.exc = answer.raises]
                /\ pc' = IF answer.raises = <<>> THEN AfterPage(call.fn)
                         ELSE "except"
    /\ UNCHANGED <<textVars, env, ret, ret_fetch>>

\* wiki_fetch: content = wikipedia.summary(page.title, sentences=sentences)
\* if sentences > 0, page.summary otherwise
Content ==
    /\ pc = "content"
    /\ IF env.sentences > 0
       THEN /\ call' = [call EXCEPT !.content = env.summary.value,
                                    !.exc = env.summary.raises]
            /\ pc' = IF env.summary.raises = <<>> THEN "format" ELSE "except"
       ELSE /\ call' = [call EXCEPT !.content = <<call.page[1].summary>>]
            /\ pc' = "format"
    /\ UNCHANGED <<textVars, env, ret, ret_fetch>>

\* the text the function cleans: content, page.content in wiki_content
Fetched(c) == IF c.fn = "wiki_fetch" THEN c.content[1] ELSE c.page[1].content

\* for_jupyter = is_jupyter(), formatted = clean_wikipedia_text(...), and
\* return header + formatted
Format ==
    /\ pc = "format"
    /\ for_jupyter' = is_jupyter(env.shell)
    /\ ret' = << Header(call.fn, call.page[1].title, is_jupyter(env.shell))
                   \o clean_wikipedia_text(Fetched(call), is_jupyter(env.shell)) >>
    /\ pc' = "returned"
    /\ UNCHANGED <<text, before, out, once, pieces, env, call, ret_fetch>>

\* the except clauses of the function fn
ExceptClauses(fn) ==
    IF fn = "wiki_fetch" THEN WikiFetchExcept ELSE WikiContentExcept

\* whether some clause of `clauses` catches e, and the first that does
Caught(clauses, e) == \E k \in 1..Len(clauses) : IsInstance(e, clauses[k])
Catching(clauses, e) ==
    clauses[CHOOSE k \in 1..Len(clauses) :
                /\ IsInstance(e, clauses[k])
                /\ \A j \in 1..(k - 1) : ~IsInstance(e, clauses[j])]

\* the exception reaches the outer try: the first clause that catches it
\* returns its message; with no such clause it goes on to the caller
Except ==
    /\ pc = "except"
    /\ IF Caught(ExceptClauses(call.fn), call.exc[1])
       THEN /\ ret' = << Handled(Catching(ExceptClauses(call.fn), call.exc[1]),
                                 env.query, call.exc[1]) >>
            /\ pc' = "returned"
       ELSE /\ pc' = "raised"
            /\ UNCHANGED ret
    /\ UNCHANGED <<textVars, env, call, ret_fetch>>

\* the caller calls wiki_content with the same query next, the encyclopedia
\* answering as before
CallWikiContent ==
    /\ pc = "returned"
    /\ call.fn = "wiki_fetch"
    /\ ret_fetch' = ret
    /\ ret' = <<>>
    /\ call' = StartCall("wiki_content")
    /\ pc' = "search"
    /\ UNCHANGED <<textVars, env>>

----------------------------------------------------------------------------
(* Checking wiki_fetch and wiki_content: one query, answered by an         *)
(* encyclopedia of three pages, first to wiki_fetch and then to            *)
(* wiki_content.                                                           *)

TitleA == <<"A">>
TitleB == <<"B">>
TitleC == <<"C">>
Titles == {TitleA, TitleB, TitleC}

PageA == WikipediaPage(TitleA, <<"M", " ">> \o Block(<<"M">>))
PageB == WikipediaPage(TitleB, <<"x", ",", " ", "x">>)
PageC == WikipediaPage(TitleC, <<"x">>)

Queries == {<<"p", "i">>, <<"M">>}

\* what wikipedia.search(query) answers
SearchAnswers ==
    {Returns(<<>>), Returns(<<TitleA, TitleB>>), Raises(HTTPTimeoutError)}

\* what wikipedia.page(title, auto_suggest=False) answers, title by title
PageAnswers ==
    { f \in [Titles -> { Returns(PageA), Returns(PageB), Returns(PageC),
                         Raises(PageError), Raises(HTTPTimeoutError),
                         Raises(DisambiguationError(<<>>)),
                         Raises(DisambiguationError(<<TitleB, TitleC>>)),
                         Raises(DisambiguationError(<<TitleC>>)) }] :
        /\ f[TitleA] \in { Returns(PageA), Raises(PageError),
                           Raises(HTTPTimeoutError),
                           Raises(DisambiguationError(<<>>)),
                           Raises(DisambiguationError(<<TitleB, TitleC>>)) }
        /\ f[TitleB] \in { Returns(PageB), Raises(PageError),
                           Raises(HTTPTimeoutError),
                           Raises(DisambiguationError(<<TitleC>>)) }
        /\ f[TitleC] = Returns(PageC) }

\* what wikipedia.summary(title, sentences=sentences) answers
SummaryAnswers ==
    {Returns(<<"x", ",">>), Raises(PageError), Raises(HTTPTimeoutError)}

Shells == {"ImportError", "None", "ZMQInteractiveShell", "TerminalInteractiveShell"}

InitWiki ==
    /\ env \in [query : Queries, sentences : {0, 2}, search : SearchAnswers,
                page : PageAnswers, summary : SummaryAnswers, shell : Shells]
    /\ call = StartCall("wiki_fetch")
    /\ pc = "search"
    /\ ret = <<>>
    /\ ret_fetch = <<>>
    /\ text = <<>>
    /\ before = <<>>
    /\ out = <<>>
    /\ for_jupyter = FALSE
    /\ once = <<>>
    /\ pieces = <<>>

NextWiki ==
    \/ Search
    \/ Page
    \/ Disambiguation
    \/ Content
    \/ Format
    \/ Except
    \/ CallWikiContent

SpecWiki == InitWiki /\ [][NextWiki]_vars

\* s starts with one of the three failure messages
FailureMessage(s) ==
    \/ At(s, 1, NoResultsMessage(<<>>))
    \/ At(s, 1, NotFoundMessage(<<>>))
    \/ At(s, 1, ErrorMessage(Exc("Exception", <<>>, <<>>)))

\* the call of wikipedia.summary that wiki_fetch makes fails
SummaryFails == env.sentences > 0 /\ env.summary.raises # <<>>

\* wiki_fetch has returned
C1Returned == pc = "returned" /\ call.fn = "wiki_fetch"

\* the search finds the titles A and B, and the lookup e of a page, the
\* first or, after a disambiguation, that of the first option, reports a
\* missing page
C1PageMissing ==
    /\ env.search = Returns(<<TitleA, TitleB>>)
    /\ \/ env.page[TitleA] = Raises(PageError)
       \/ /\ env.page[TitleA] = Raises(DisambiguationError(<<TitleB, TitleC>>))
          /\ env.page[TitleB] = Raises(PageError)

\* C1: wiki_fetch never lets an exception through to its caller, it returns
\* a string whatever the search, the page lookups, the summary and the shell
\* answer: on no search results the string has "No Wikipedia results found"
\* and no page was looked up; when a page lookup reports a missing page it
\* is the "page not found" message; on any other exception it is "Error
\* fetching Wikipedia content: " and the exception's message.
C1_NeverPropagates ==
    /\ pc # "raised"
    /\ C1Returned =>
          /\ Len(ret) = 1
          /\ (env.search = Returns(<<>>) =>
                /\ Contains(ret[1], <<"N", "o", " ", "W", "i", "k", "i", "p", "e",
                                      "d", "i", "a", " ", "r", "e", "s", "u", "l",
                                      "t", "s", " ", "f", "o", "u", "n", "d">>)
                /\ call.looked = <<>>)
          /\ (C1PageMissing => ret[1] = NotFoundMessage(env.query))
          /\ (call.exc # <<>> =>
                ret[1] = IF call.exc[1].class = "PageError"
                         THEN NotFoundMessage(env.query)
                         ELSE ErrorMessage(call.exc[1]))

\* a disambiguation without options: IndexError, turned into the message
C1_Witness ==
    /\ C1Returned
    /\ call.exc = <<IndexError>>
    /\ call.looked = <<TitleA>>
    /\ ret = <<ErrorMessage(IndexError)>>

\* wiki_fetch has returned and its first page lookup had signalled a
\* disambiguation
C7Disambiguated ==
    /\ pc = "returned"
    /\ call.fn = "wiki_fetch"
    /\ call.looked # <<>>
    /\ env.page[call.looked[1]].raises # <<>>
    /\ env.page[call.looked[1]].raises[1].class = "DisambiguationError"

\* the options of that disambiguation
C7Options == env.page[call.looked[1]].raises[1].options

\* C7 as claimed: after a disambiguation at the first page lookup wiki_fetch
\* looks up the first option and goes on with that page, and what it
\* returns is no failure message.
C7_NeverFailure ==
    (C7Disambiguated /\ ~SummaryFails) =>
        /\ Len(call.looked) = 2
        /\ call.looked[2] = C7Options[1]
        /\ ~FailureMessage(ret[1])

\* C7 as amended: after a disambiguation at the first page lookup wiki_fetch
\* looks up the first option and, when that lookup gives a page, goes on
\* with that page and returns no failure message for the disambiguation;
\* with no option to look up, or when that lookup fails, it returns the
\* failure message of that failure.
C7_FirstOptionTried ==
    C7Disambiguated =>
        IF C7Options = <<>>
        THEN call.looked = <<TitleA>> /\ ret = <<ErrorMessage(IndexError)>>
        ELSE /\ call.looked = <<TitleA, C7Options[1]>>
             /\ IF env.page[C7Options[1]].raises = <<>>
                THEN /\ call.page = env.page[C7Options[1]].value
                     /\ ~SummaryFails =>
                           /\ ~FailureMessage(ret[1])
                           /\ At(ret[1], 1, Header("wiki_fetch", C7Options[1],
                                                   is_jupyter(env.shell)))
                ELSE ret[1] =
                       IF env.page[C7Options[1]].raises[1].class = "PageError"
                       THEN NotFoundMessage(env.query)
                       ELSE ErrorMessage(env.page[C7Options[1]].raises[1])

\* a disambiguation recovered: the page of the first of two options
C7_Witness ==
    /\ C7Disambiguated
    /\ Len(C7Options) = 2
    /\ call.page = <<PageB>>
    /\ ~FailureMessage(ret[1])

\* how a returned string s ends the call
C8Category(s) ==
    IF At(s, 1, NoResultsMessage(<<>>)) THEN "no results"
    ELSE IF At(s, 1, NotFoundMessage(<<>>)) THEN "page not found"
    ELSE IF At(s, 1, ErrorMessage(Exc("Exception", <<>>, <<>>))) THEN "error"
    ELSE "page"

\* C8: whatever the search and the page lookups answer, wiki_content ends
\* as wiki_fetch does on the same answers: in the same category, and with
\* the same message when that is a failure.
C8_SameAsFetch ==
    (pc = "returned" /\ call.fn = "wiki_content" /\ ~SummaryFails) =>
        /\ C8Category(ret[1]) = C8Category(ret_fetch[1])
        /\ (C8Category(ret[1]) # "page" => ret = ret_fetch)

====
